---- MODULE Spec2Model ----
(***************************************************************************)
(* The RAG chat backend: the chunker and the embedder of ingest.py, the    *)
(* ingestion run, the vector-index client of qdrant_client_lib.py, and the *)
(* service start-up, /chat and /auth handlers of main.py.                  *)
(***************************************************************************)
EXTENDS Integers, Sequences, FiniteSets, TLC

VARIABLES
    \* chunk_text (ingest.py:21-32): arguments, locals and position
    text, max_chunk_size, overlap_size, start, chunks, cpc,
    \* generate_embedding (ingest.py:34-52): the service's answers, the
    \* argument, the loop counter, the calls made, the result and position
    outcomes, max_retries, attempt, calls, embedding, epc,
    \* auth.py:42 users_db, and the last /auth response sent
    users_db, resp,
    \* the deployment's configuration (config.py) and the service process:
    \* lifespan position, qdrant_client_lib.py:6 and main.py:33 globals,
    \* whether start-up's initialize_qdrant_collection succeeded, last /chat
    gemini_key_set, qdrant_ctor_ok, phase, qdrant_client_instance, gemini_model,
    qdrant_initialized, chat,
    \* the book_content collection held by the vector index
    collection,
    \* the docs tree and an ingest_book_content run (ingest.py:54-114);
    \* run_no counts the runs, prev_count the points found indexed at its start
    docs, ipc, file_idx, ichunks, chunk_idx, points, point_id_counter,
    embed_log, upsert_calls, upsert_batch, run_no, prev_count

chunkVars == <<text, max_chunk_size, overlap_size, start, chunks, cpc>>
embedVars == <<outcomes, max_retries, attempt, calls, embedding, epc>>
authVars == <<users_db, resp>>
confVars == <<gemini_key_set, qdrant_ctor_ok>>
svcVars == <<phase, qdrant_client_instance, gemini_model, qdrant_initialized, chat>>
ingVars == <<ipc, file_idx, ichunks, chunk_idx, points, point_id_counter,
             embed_log, upsert_calls, upsert_batch, run_no, prev_count>>
vars == <<chunkVars, embedVars, authVars, confVars, svcVars, collection, docs, ingVars>>

\* ------------------------------------------------------------- bounds
MaxLen == 5       \* longest text given to chunk_text on its own
MaxW == 3         \* largest max_chunk_size / overlap_size tried
MaxIter == 8      \* cap on loop iterations of a chunk_text call that never ends
MaxRetries == 3   \* largest max_retries tried

\* ------------------------------------------------------------ helpers
\* Python's None where an object is expected, and where a name is expected
None == [none |-> TRUE]
NoName == "<none>"

Min(a, b) == IF a < b THEN a ELSE b
Max(a, b) == IF a > b THEN a ELSE b

\* ceil(a / b) for a >= 0, b >= 1
CeilDiv(a, b) == (a + b - 1) \div b

Chars == {"a", "b"}

RECURSIVE SeqsUpTo(_, _)
SeqsUpTo(S, n) ==
    IF n = 0 THEN {<<>>}
    ELSE LET shorter == SeqsUpTo(S, n - 1)
         IN shorter \cup {Append(s, c) : s \in {t \in shorter : Len(t) = n - 1}, c \in S}

\* Python's s[lo:hi]: a negative index counts from the end, both are clipped
PyIndex(i, n) == IF i < 0 THEN Max(i + n, 0) ELSE Min(i, n)
PySlice(s, lo, hi) ==
    LET l == PyIndex(lo, Len(s))
        h == PyIndex(hi, Len(s))
    IN IF h <= l THEN <<>> ELSE SubSeq(s, l + 1, h)

\* ------------------------------------------------------- chunk_text
\* One pass of the while body: end = start + max; append text[start:end];
\* start += max - overlap.
ChunkBodyNoOverlap(t, w, o, cs, st) ==
    [chunks |-> Append(cs, PySlice(t, st, st + w)), start |-> st + w]
ChunkBody(t, w, o, cs, st) ==
    [chunks |-> Append(cs, PySlice(t, st, st + w)), start |-> st + w - o]

\* The loop test `while start < len(text)`
ChunkGuardStopsAtWindowEnd(t, w, o, st) == st < Len(t) /\ (st = 0 \/ st + o < Len(t))
ChunkGuard(t, w, o, st) == st < Len(t)

\* chunk_text as a function, for callers that pass overlap < max
RECURSIVE ChunkLoop(_, _, _, _, _)
ChunkLoop(t, w, o, cs, st) ==
    IF ChunkGuard(t, w, o, st)
    THEN LET nx == ChunkBody(t, w, o, cs, st)
         IN ChunkLoop(t, w, o, nx.chunks, nx.start)
    ELSE cs
chunk_text(t, w, o) == IF Len(t) = 0 THEN <<>> ELSE ChunkLoop(t, w, o, <<>>, 0)

\* ------------------------------------------------- generate_embedding
EMBEDDING_DIM == 768          \* size of a models/embedding-001 vector
DEFAULT_MAX_RETRIES == 5      \* max_retries=5
Outcomes == {"ok", "rate", "err"}   \* success, ResourceExhausted, any other Exception
Vector == [dim |-> EMBEDDING_DIM]

\* What one pass of the try block does with the service's answer:
\* return result['embedding'] / sleep and go round again / return None
OnOutcomeRetryEverything(o) ==
    IF o = "ok" THEN [kind |-> "return", value |-> Vector] ELSE [kind |-> "retry", value |-> None]
OnOutcome(o) ==
    CASE o = "ok" -> [kind |-> "return", value |-> Vector]
      [] o = "rate" -> [kind |-> "retry", value |-> None]
      [] OTHER -> [kind |-> "return", value |-> None]

\* generate_embedding as a function of the service's answers: the value returned
RECURSIVE EmbedLoop(_, _, _)
EmbedLoop(outs, n, a) ==
    IF a >= n THEN None
    ELSE LET r == OnOutcome(outs[a + 1])
         IN IF r.kind = "return" THEN r.value ELSE EmbedLoop(outs, n, a + 1)
generate_embedding(outs, n) == EmbedLoop(outs, n, 0)

EmbedIdle ==
    /\ outcomes = <<>> /\ max_retries = 0 /\ attempt = 0
    /\ calls = 0 /\ embedding = None /\ epc = "idle"

EmbedInit ==
    /\ max_retries \in 0..MaxRetries
    /\ outcomes \in [1..MaxRetries -> Outcomes]
    /\ attempt = 0
    /\ calls = 0
    /\ embedding = None
    /\ epc = "loop"

\* one pass of `for attempt in range(max_retries)`: call embed_content
EmbedAttempt ==
    /\ epc = "loop"
    /\ attempt < max_retries
    /\ calls' = calls + 1
    /\ LET r == OnOutcome(outcomes[attempt + 1])
       IN IF r.kind = "return"
          THEN embedding' = r.value /\ epc' = "done" /\ attempt' = attempt
          ELSE embedding' = embedding /\ epc' = "loop" /\ attempt' = attempt + 1
    /\ UNCHANGED <<outcomes, max_retries, chunkVars, authVars, confVars, svcVars, collection, docs, ingVars>>

\* the range is used up: "Failed to generate embedding after multiple retries."
EmbedGiveUp ==
    /\ epc = "loop"
    /\ attempt >= max_retries
    /\ embedding' = None
    /\ epc' = "done"
    /\ UNCHANGED <<outcomes, max_retries, attempt, calls, chunkVars, authVars, confVars, svcVars, collection, docs, ingVars>>

EmbedNext == EmbedAttempt \/ EmbedGiveUp

ChunkIdle ==
    /\ text = <<>> /\ max_chunk_size = 1 /\ overlap_size = 0
    /\ start = 0 /\ chunks = <<>> /\ cpc = "idle"

ChunkInit ==
    /\ text \in SeqsUpTo(Chars, MaxLen)
    /\ max_chunk_size \in 0..MaxW
    /\ overlap_size \in 0..MaxW
    /\ start = 0
    /\ chunks = <<>>
    /\ cpc = "call"

\* `if not text: return []`, else chunks = [], start = 0
ChunkCall ==
    /\ cpc = "call"
    /\ chunks' = <<>>
    /\ start' = 0
    /\ cpc' = IF Len(text) = 0 THEN "done" ELSE "loop"
    /\ UNCHANGED <<text, max_chunk_size, overlap_size, embedVars, authVars, confVars, svcVars, collection, docs, ingVars>>

ChunkIterate ==
    /\ cpc = "loop"
    /\ ChunkGuard(text, max_chunk_size, overlap_size, start)
    /\ Len(chunks) < MaxIter
    /\ LET nx == ChunkBody(text, max_chunk_size, overlap_size, chunks, start)
       IN /\ chunks' = nx.chunks
          /\ start' = nx.start
    /\ UNCHANGED <<text, max_chunk_size, overlap_size, cpc, embedVars, authVars, confVars, svcVars, collection, docs, ingVars>>

ChunkReturn ==
    /\ cpc = "loop"
    /\ ~ChunkGuard(text, max_chunk_size, overlap_size, start)
    /\ cpc' = "done"
    /\ UNCHANGED <<text, max_chunk_size, overlap_size, start, chunks, embedVars, authVars, confVars, svcVars, collection, docs, ingVars>>

ChunkNext == ChunkCall \/ ChunkIterate \/ ChunkReturn

\* ------------------------------------------------------------ /auth
Usernames == {"ann", "bob"}
Emails == {"a@x", "b@x"}
Passwords == {"pw1", "pw2"}
Salts == {1, 2}               \* bcrypt draws a fresh salt for every hash

\* auth.py:18-19 get_password_hash, auth.py:15-16 verify_password
get_password_hash(password, salt) == [pw |-> password, salt |-> salt]
verify_password(plain_password, hashed_password) == hashed_password.pw = plain_password

\* a bearer token as decode_access_token sees it: a payload, or None when
\* the signature is wrong or the token has expired
Tokens == [sub : Usernames \cup {NoName}, signed : BOOLEAN, expired : BOOLEAN]
decode_access_token(token) ==
    IF token.signed /\ ~token.expired THEN [sub |-> token.sub] ELSE None

\* `user_data.username in users_db`
UsernameTakenNeverChecked(db, username) == FALSE
UsernameTaken(db, username) == db[username] # None

AuthIdle ==
    /\ users_db = [u \in Usernames |-> None]
    /\ resp = [op |-> "none", username |-> NoName, status |-> 0]

AuthInit == AuthIdle

signup(username, email, password, salt) ==
    /\ IF UsernameTaken(users_db, username)
       THEN /\ resp' = [op |-> "signup", username |-> username, status |-> 400]
            /\ UNCHANGED users_db
       ELSE /\ users_db' = [users_db EXCEPT ![username] =
                   [hashed_password |-> get_password_hash(password, salt),
                    email |-> email, full_name |-> username]]
            /\ resp' = [op |-> "signup", username |-> username, status |-> 200]
    /\ UNCHANGED <<chunkVars, embedVars, confVars, svcVars, collection, docs, ingVars>>

login_for_access_token(username, password) ==
    /\ LET user == users_db[username]
       IN IF user = None \/ ~verify_password(password, user.hashed_password)
          THEN resp' = [op |-> "login", username |-> username, status |-> 401]
          ELSE resp' = [op |-> "login", username |-> username, status |-> 200]
    /\ UNCHANGED <<users_db, chunkVars, embedVars, confVars, svcVars, collection, docs, ingVars>>

read_users_me(token) ==
    /\ LET payload == decode_access_token(token)
       IN IF payload = None
          THEN resp' = [op |-> "me", username |-> NoName, status |-> 401]
          ELSE IF payload.sub = NoName \/ users_db[payload.sub] = None
               THEN resp' = [op |-> "me", username |-> payload.sub, status |-> 401]
               ELSE resp' = [op |-> "me", username |-> payload.sub, status |-> 200]
    /\ UNCHANGED <<users_db, chunkVars, embedVars, confVars, svcVars, collection, docs, ingVars>>

Signup == \E u \in Usernames, e \in Emails, p \in Passwords, s \in Salts : signup(u, e, p, s)
Login == \E u \in Usernames, p \in Passwords : login_for_access_token(u, p)
Me == \E t \in Tokens : read_users_me(t)

AuthNext == Signup \/ Login \/ Me

\* ------------------------------------------------ qdrant_client_lib
STARTUP_VECTOR_SIZE == 1536   \* initialize_qdrant_collection: size=1536
INGEST_VECTOR_SIZE == 768     \* ingest_book_content: size=768
Client == [kind |-> "QdrantClient"]
Model == [kind |-> "GenerativeModel"]
NoPoints == [id \in {} |-> None]

\* get_qdrant_client: builds the client on first use. The constructor talks
\* to no server; whether it raises is decided by QDRANT_HOST / QDRANT_API_KEY.
get_qdrant_client(instance, ctor_ok) ==
    IF instance = None
    THEN IF ctor_ok THEN [raised |-> FALSE, client |-> Client]
                    ELSE [raised |-> TRUE, client |-> None]
    ELSE [raised |-> FALSE, client |-> instance]

\* client.create_collection(size=1536) when book_content is not listed
CreateIfAbsent(col) ==
    IF col = None THEN [size |-> STARTUP_VECTOR_SIZE, points |-> NoPoints] ELSE col

\* client.recreate_collection(size=768): drop, then create
RecreateKeepsPoints(col) ==
    IF col = None THEN [size |-> INGEST_VECTOR_SIZE, points |-> NoPoints]
    ELSE [col EXCEPT !.size = INGEST_VECTOR_SIZE]
RecreateCollection(col) == [size |-> INGEST_VECTOR_SIZE, points |-> NoPoints]

PointIds(batch) == {batch[i].id : i \in 1..Len(batch)}
PointWithId(batch, id) == batch[CHOOSE i \in 1..Len(batch) : batch[i].id = id]

\* the index accepts a vector only when its length is the collection's size
DimsMatch(col, vector) == col # None /\ col.size = vector.dim

\* client.upsert: insert, or replace the point of the same id
Upsert(col, batch) ==
    [col EXCEPT !.points =
        [id \in (DOMAIN col.points) \cup PointIds(batch) |->
            IF id \in PointIds(batch)
            THEN LET p == PointWithId(batch, id)
                 IN [vector |-> p.vector, payload |-> p.payload]
            ELSE col.points[id]]]

\* ---------------------------------------------- ingest_book_content
MAX_CHUNK_SIZE == 1000
OVERLAP_SIZE == 200
MaxFiles == 2     \* most files in the docs tree
MaxRuns == 2      \* ingestion runs followed

Whitespace == {" ", "\n", "\t"}

\* str.strip(): leading and trailing whitespace removed
Strip(s) ==
    LET keep == {i \in 1..Len(s) : s[i] \notin Whitespace}
    IN IF keep = {} THEN <<>>
       ELSE SubSeq(s, CHOOSE i \in keep : \A j \in keep : i <= j,
                      CHOOSE i \in keep : \A j \in keep : i >= j)

\* `if not chunk.strip(): continue`
SkipChunkOnlyIfEmpty(chunk) == Len(chunk) = 0
SkipChunk(chunk) == Len(Strip(chunk)) = 0

\* `file_name.endswith(".md") or file_name.endswith(".mdx")`
IsDocFile(f) == f.ext \in {"md", "mdx"}

\* `if points:`
ShouldUpsert(pts) == Len(pts) > 0

\* texts of the docs tree: two chunks' worth of prose around a blank stretch
\* (chunks [0,1000), [800,1800), [1600,1801)), a short text, a blank text
LongText == [i \in 1..1801 |-> IF i <= 800 \/ i = 1801 THEN "a" ELSE " "]
ShortText == <<"a", " ", "b">>
BlankText == <<" ", "\n">>
FileKinds ==
    { [ext |-> "md", readable |-> FALSE, content |-> <<>>],
      [ext |-> "md", readable |-> TRUE, content |-> BlankText],
      [ext |-> "mdx", readable |-> TRUE, content |-> LongText],
      [ext |-> "txt", readable |-> TRUE, content |-> ShortText] }
Corpora == SeqsUpTo(FileKinds, MaxFiles)
\* the trees ingested while the service is followed as well
ServiceCorpora == {<<>>, <<[ext |-> "md", readable |-> TRUE, content |-> ShortText]>>}

\* what generate_embedding can be answered within DEFAULT_MAX_RETRIES calls
RECURSIVE Rates(_)
Rates(n) == IF n = 0 THEN <<>> ELSE Append(Rates(n - 1), "rate")
EmbedRuns ==
    {Rates(DEFAULT_MAX_RETRIES)} \cup
    {Append(Rates(j), o) : j \in 0..(DEFAULT_MAX_RETRIES - 1), o \in {"ok", "err"}}

\* where the run goes when the `for file_name in files` body is over
NextFilePc(fi) == IF fi < Len(docs) THEN "file" ELSE "upsert"
\* `except Exception as e: print(...)`: on to the next file
AfterFileErrorAborts(fi) == "failed"
AfterFileError(fi) == NextFilePc(fi)

IngestIdle ==
    /\ docs = <<>>
    /\ collection = None
    /\ ipc = "idle" /\ file_idx = 0 /\ ichunks = <<>> /\ chunk_idx = 0
    /\ points = <<>> /\ point_id_counter = 0 /\ embed_log = <<>>
    /\ upsert_calls = 0 /\ upsert_batch = <<>> /\ run_no = 0 /\ prev_count = 0

\* A run of the script starts in a fresh process, over the docs tree as it
\* then is: get_qdrant_client(); await recreate_collection(...); points = [];
\* point_id_counter = 0
IngestBegin(trees) ==
    /\ ipc = "idle"
    /\ run_no < MaxRuns
    /\ run_no' = run_no + 1
    /\ prev_count' = IF collection = None THEN 0 ELSE Cardinality(DOMAIN collection.points)
    /\ points' = <<>>
    /\ point_id_counter' = 0
    /\ UNCHANGED <<ichunks, chunk_idx, embed_log, upsert_calls, upsert_batch>>
    /\ \E net_ok \in BOOLEAN :
         IF get_qdrant_client(None, qdrant_ctor_ok).raised \/ ~net_ok
         THEN /\ ipc' = "failed"
              /\ UNCHANGED <<collection, docs, file_idx>>
         ELSE /\ collection' = RecreateCollection(collection)
              /\ docs' \in trees
              /\ file_idx' = 1
              /\ ipc' = IF Len(docs') = 0 THEN "upsert" ELSE "file"
    /\ UNCHANGED <<chunkVars, embedVars, authVars, confVars, svcVars>>

\* the script's process ends, and its locals with it
IngestExit ==
    /\ ipc \in {"done", "failed"}
    /\ ipc' = "idle"
    /\ docs' = <<>>
    /\ file_idx' = 0 /\ ichunks' = <<>> /\ chunk_idx' = 0
    /\ points' = <<>> /\ point_id_counter' = 0 /\ embed_log' = <<>>
    /\ upsert_calls' = 0 /\ upsert_batch' = <<>>
    /\ UNCHANGED <<run_no, prev_count, collection>>
    /\ UNCHANGED <<chunkVars, embedVars, authVars, confVars, svcVars>>

\* one file of os.walk: the extension test, open/read, chunk_text
IngestOpenFile ==
    /\ ipc = "file"
    /\ LET f == docs[file_idx]
       IN IF ~IsDocFile(f)
          THEN /\ ipc' = NextFilePc(file_idx)
               /\ file_idx' = file_idx + 1
               /\ UNCHANGED <<ichunks, chunk_idx>>
          ELSE IF ~f.readable
          THEN /\ ipc' = AfterFileError(file_idx)
               /\ file_idx' = file_idx + 1
               /\ UNCHANGED <<ichunks, chunk_idx>>
          ELSE LET cs == chunk_text(f.content, MAX_CHUNK_SIZE, OVERLAP_SIZE)
               IN IF Len(cs) = 0
                  THEN /\ ipc' = NextFilePc(file_idx)
                       /\ file_idx' = file_idx + 1
                       /\ UNCHANGED <<ichunks, chunk_idx>>
                  ELSE /\ ipc' = "chunk"
                       /\ ichunks' = cs
                       /\ chunk_idx' = 0
                       /\ UNCHANGED file_idx
    /\ UNCHANGED <<points, point_id_counter, embed_log, upsert_calls, upsert_batch,
                   run_no, prev_count, collection>>
    /\ UNCHANGED <<chunkVars, embedVars, authVars, confVars, svcVars, docs>>

\* one pass of `for i, chunk in enumerate(chunks)`
IngestChunk ==
    /\ ipc = "chunk"
    /\ LET chunk == ichunks[chunk_idx + 1]
       IN IF SkipChunk(chunk)
          THEN UNCHANGED <<points, point_id_counter, embed_log>>
          ELSE \E outs \in EmbedRuns :
                 LET e == generate_embedding(outs, DEFAULT_MAX_RETRIES)
                 IN /\ embed_log' = Append(embed_log,
                          [file |-> file_idx, chunk_index |-> chunk_idx,
                           text |-> chunk, ok |-> e # None])
                    /\ IF e = None
                       THEN UNCHANGED <<points, point_id_counter>>
                       ELSE /\ points' = Append(points,
                                  [id |-> point_id_counter, vector |-> e,
                                   payload |-> [file_path |-> file_idx,
                                                chunk_index |-> chunk_idx,
                                                text |-> chunk]])
                            /\ point_id_counter' = point_id_counter + 1
    /\ IF chunk_idx + 1 < Len(ichunks)
       THEN /\ chunk_idx' = chunk_idx + 1
            /\ UNCHANGED <<ipc, file_idx, ichunks>>
       ELSE /\ ipc' = NextFilePc(file_idx)
            /\ file_idx' = file_idx + 1
            /\ ichunks' = <<>>
            /\ chunk_idx' = 0
    /\ UNCHANGED <<upsert_calls, upsert_batch, run_no, prev_count, collection>>
    /\ UNCHANGED <<chunkVars, embedVars, authVars, confVars, svcVars, docs>>

\* `if points:` one upsert of the whole list, else "No content chunks generated"
IngestUpsert ==
    /\ ipc = "upsert"
    /\ IF ShouldUpsert(points)
       THEN /\ upsert_calls' = upsert_calls + 1
            /\ upsert_batch' = points
            /\ IF \A i \in 1..Len(points) : DimsMatch(collection, points[i].vector)
               THEN collection' = Upsert(collection, points) /\ ipc' = "done"
               ELSE UNCHANGED collection /\ ipc' = "failed"
       ELSE /\ ipc' = "done"
            /\ UNCHANGED <<upsert_calls, upsert_batch, collection>>
    /\ UNCHANGED <<file_idx, ichunks, chunk_idx, points, point_id_counter, embed_log,
                   run_no, prev_count>>
    /\ UNCHANGED <<chunkVars, embedVars, authVars, confVars, svcVars, docs>>

IngestNext ==
    IngestBegin(Corpora) \/ IngestOpenFile \/ IngestChunk \/ IngestUpsert \/ IngestExit

\* ------------------------------------------------- main.py lifespan
NoChat ==
    [status |-> "none", gemini_ready |-> FALSE, client_ready |-> FALSE,
     index_initialized |-> FALSE, calls |-> <<>>, query_dim |-> 0, index_size |-> 0]

ServiceIdle ==
    /\ gemini_key_set = FALSE /\ qdrant_ctor_ok = FALSE
    /\ phase = "down" /\ qdrant_client_instance = None /\ gemini_model = None
    /\ qdrant_initialized = FALSE /\ chat = NoChat

ServiceInit ==
    /\ gemini_key_set \in BOOLEAN
    /\ qdrant_ctor_ok \in BOOLEAN
    /\ phase = "down"
    /\ qdrant_client_instance = None
    /\ gemini_model = None
    /\ qdrant_initialized = FALSE
    /\ chat = NoChat

\* The start-up half of lifespan in a fresh process (both globals None):
\* initialize_qdrant_collection() under try/except, then the Gemini client.
Startup ==
    /\ phase = "down"
    /\ phase' = "up"
    /\ chat' = NoChat
    /\ \E net_ok \in BOOLEAN :
         LET r == get_qdrant_client(None, qdrant_ctor_ok)
         IN /\ qdrant_client_instance' = r.client
            /\ IF r.raised \/ ~net_ok
               THEN qdrant_initialized' = FALSE /\ UNCHANGED collection
               ELSE qdrant_initialized' = TRUE /\ collection' = CreateIfAbsent(collection)
    /\ IF ~gemini_key_set
       THEN gemini_model' = None
       ELSE \E made \in BOOLEAN : gemini_model' = IF made THEN Model ELSE None
    /\ UNCHANGED <<chunkVars, embedVars, authVars, confVars, docs, ingVars>>

\* The shutdown half: close_qdrant_client() is called without await, so its
\* body never runs and qdrant_client_instance is left as it is.
Shutdown ==
    /\ phase = "up"
    /\ phase' = "down"
    /\ UNCHANGED <<qdrant_client_instance, gemini_model, qdrant_initialized, chat>>
    /\ UNCHANGED <<chunkVars, embedVars, authVars, confVars, collection, docs, ingVars>>

\* ------------------------------------------------------ POST /chat
ChatRecord(status, callsMade, r) ==
    [status |-> status,
     gemini_ready |-> gemini_model # None,
     client_ready |-> qdrant_client_instance # None,
     index_initialized |-> qdrant_initialized,
     calls |-> callsMade,
     query_dim |-> IF r = None THEN 0 ELSE r.dim,
     index_size |-> IF collection = None THEN 0 ELSE collection.size]

chat_with_rag(outs, search_ok, llm_ok) ==
    /\ phase = "up"
    /\ IF gemini_model = None
       THEN /\ chat' = ChatRecord("500 Gemini client not initialized.", <<>>, None)
            /\ UNCHANGED qdrant_client_instance
       ELSE LET r == get_qdrant_client(qdrant_client_instance, qdrant_ctor_ok)
            IN IF r.raised
               THEN /\ chat' = ChatRecord("500 Internal Server Error", <<>>, None)
                    /\ UNCHANGED qdrant_client_instance
               ELSE /\ qdrant_client_instance' = r.client
                    /\ IF r.client = None
                       THEN chat' = ChatRecord("500 Qdrant client not initialized.", <<>>, None)
                       ELSE LET e == generate_embedding(outs, DEFAULT_MAX_RETRIES)
                            IN IF e = None
                               THEN chat' = ChatRecord("500 Failed to generate query embedding.",
                                                       <<"embed">>, None)
                               ELSE IF ~search_ok \/ ~DimsMatch(collection, e)
                               THEN chat' = ChatRecord("500 Qdrant search failed",
                                                       <<"embed", "search">>, e)
                               ELSE IF ~llm_ok
                               THEN chat' = ChatRecord("500 LLM generation failed",
                                                       <<"embed", "search", "generate">>, e)
                               ELSE chat' = ChatRecord("200", <<"embed", "search", "generate">>, e)
    /\ UNCHANGED <<phase, gemini_model, qdrant_initialized>>
    /\ UNCHANGED <<chunkVars, embedVars, authVars, confVars, collection, docs, ingVars>>

Chat == \E outs \in EmbedRuns, search_ok \in BOOLEAN, llm_ok \in BOOLEAN :
            chat_with_rag(outs, search_ok, llm_ok)

Next ==
    \/ Startup \/ Shutdown \/ Chat
    \/ IngestBegin(ServiceCorpora) \/ IngestOpenFile \/ IngestChunk \/ IngestUpsert \/ IngestExit

\* ---------------------------------------------------- specifications
\* the service and the ingestion script against one vector index
Init == ChunkIdle /\ EmbedIdle /\ AuthIdle /\ ServiceInit /\ IngestIdle
Spec == Init /\ [][Next]_vars

\* ingestion runs, each over the docs tree it finds
IngestSpecInit ==
    /\ ChunkIdle /\ EmbedIdle /\ AuthIdle /\ IngestIdle
    /\ gemini_key_set = TRUE /\ qdrant_ctor_ok \in BOOLEAN
    /\ phase = "down" /\ qdrant_client_instance = None /\ gemini_model = None
    /\ qdrant_initialized = FALSE /\ chat = NoChat
IngestSpec == IngestSpecInit /\ [][IngestNext]_vars

AuthSpecInit == ChunkIdle /\ EmbedIdle /\ AuthInit /\ ServiceIdle /\ IngestIdle
AuthSpec == AuthSpecInit /\ [][AuthNext]_vars

ChunkSpecInit == ChunkInit /\ EmbedIdle /\ AuthIdle /\ ServiceIdle /\ IngestIdle
ChunkSpec == ChunkSpecInit /\ [][ChunkNext]_vars
\* the interpreter keeps running a call that has started
ChunkFairSpec == ChunkSpec /\ WF_vars(ChunkNext)

ValidChunkArgs == Len(text) >= 1 /\ 0 <= overlap_size /\ overlap_size < max_chunk_size

\* C1: for L >= 1 and 0 <= O < W, chunk_text terminates, chunk i is exactly
\* text[i*(W-O) : min(i*(W-O)+W, L)], every chunk has length <= W, and every
\* index in [0, L) lies in at least one chunk.
C1_ChunkWindowsState ==
    (cpc = "done" /\ ValidChunkArgs) =>
        LET L == Len(text)
            W == max_chunk_size
            step == max_chunk_size - overlap_size
        IN /\ \A i \in 1..Len(chunks) :
                /\ (i - 1) * step < L
                /\ chunks[i] = SubSeq(text, (i - 1) * step + 1, Min((i - 1) * step + W, L))
                /\ Len(chunks[i]) <= W
           /\ \A idx \in 0..(L - 1) :
                \E i \in 1..Len(chunks) :
                    (i - 1) * step <= idx /\ idx < Min((i - 1) * step + W, L)
C1_ChunkWindows ==
    /\ []C1_ChunkWindowsState
    /\ ((cpc = "call" /\ ValidChunkArgs) ~> (cpc = "done"))
C1_Witness ==
    cpc = "done" /\ ValidChunkArgs /\ Len(chunks) >= 3 /\ overlap_size >= 1
        /\ Len(chunks[Len(chunks)]) < max_chunk_size

\* C2 (as amended): for L >= 1 and 0 <= O < W the number of chunks is
\* ceil(L / (W - O)); in particular every text with L <= W - O yields exactly
\* one chunk.
C2_ChunkCount ==
    (cpc = "done" /\ ValidChunkArgs) =>
        /\ Len(chunks) = CeilDiv(Len(text), max_chunk_size - overlap_size)
        /\ (Len(text) <= max_chunk_size - overlap_size => Len(chunks) = 1)
C2_Witness ==
    cpc = "done" /\ ValidChunkArgs /\ overlap_size >= 1
        /\ Len(text) <= max_chunk_size /\ Len(chunks) = 2
\* C2 as stated: the number of chunks is ceil(max(L - O, 1) / (W - O)), and
\* every text with L <= W yields exactly one chunk.
C2_AsStated ==
    (cpc = "done" /\ ValidChunkArgs) =>
        /\ Len(chunks) = CeilDiv(Max(Len(text) - overlap_size, 1), max_chunk_size - overlap_size)
        /\ (Len(text) <= max_chunk_size => Len(chunks) = 1)

\* C3: a call on a non-empty text with overlap_size >= max_chunk_size is
\* rejected with a configuration error instead of entering the loop.
C3_OverlapRejected ==
    (Len(text) >= 1 /\ overlap_size >= max_chunk_size) => cpc \in {"call", "rejected"}
EmbedSpecInit == EmbedInit /\ ChunkIdle /\ AuthIdle /\ ServiceIdle /\ IngestIdle
EmbedSpec == EmbedSpecInit /\ [][EmbedNext]_vars

\* position of the first answer that is not a rate-limit failure
FirstSettled ==
    IF \E i \in 1..Len(outcomes) : outcomes[i] # "rate"
    THEN CHOOSE i \in 1..Len(outcomes) :
            outcomes[i] # "rate" /\ \A j \in 1..(i - 1) : outcomes[j] = "rate"
    ELSE Len(outcomes) + 1

\* C4: generate_embedding calls the service exactly min(max_retries, k) times,
\* k the position of the first answer that is not a rate-limit failure; it
\* returns the vector if that answer is a success, None if it is another
\* failure or if max_retries rate-limit failures came first, and never raises.
C4_EmbedRetries ==
    /\ epc \in {"idle", "loop", "done"}
    /\ calls <= Min(max_retries, FirstSettled)
    /\ epc = "done" =>
          /\ calls = Min(max_retries, FirstSettled)
          /\ embedding = IF FirstSettled <= max_retries /\ outcomes[FirstSettled] = "ok"
                         THEN Vector ELSE None
C4_Witness ==
    /\ epc = "done" /\ max_retries >= 2 /\ calls = max_retries
    /\ FirstSettled > max_retries /\ embedding = None
\* "empty or whitespace-only", as the claims use it
WhitespaceOnly(s) == \A i \in 1..Len(s) : s[i] \in Whitespace

\* C5: every non-blank chunk of every readable file is sent to the embedder
\* and, when its embedding succeeds, is among the points passed to the upsert,
\* wherever the unreadable files stand; a read failure never aborts the run.
C5_ReadFailureTolerated ==
    /\ file_idx >= 1 => ipc # "failed"
    /\ ipc = "done" =>
          \A f \in 1..Len(docs) :
            (IsDocFile(docs[f]) /\ docs[f].readable) =>
              LET cs == chunk_text(docs[f].content, MAX_CHUNK_SIZE, OVERLAP_SIZE)
              IN \A i \in 1..Len(cs) :
                   ~WhitespaceOnly(cs[i]) =>
                     \E k \in 1..Len(embed_log) :
                       /\ embed_log[k].file = f
                       /\ embed_log[k].chunk_index = i - 1
                       /\ embed_log[k].text = cs[i]
                       /\ embed_log[k].ok =>
                            \E j \in 1..Len(upsert_batch) :
                              upsert_batch[j].payload =
                                [file_path |-> f, chunk_index |-> i - 1, text |-> cs[i]]
C5_Witness ==
    /\ ipc = "done" /\ Len(docs) = 2
    /\ IsDocFile(docs[1]) /\ docs[1].readable
    /\ IsDocFile(docs[2]) /\ ~docs[2].readable
    /\ Len(upsert_batch) >= 1
    /\ \E k \in 1..Len(embed_log) : ~embed_log[k].ok

\* C6: no empty or whitespace-only chunk is sent to the embedder; the upsert
\* is called exactly once when at least one point was accumulated and not at
\* all when none was, and then no point is indexed.
C6_BlankSkippedSingleUpsert ==
    /\ \A k \in 1..Len(embed_log) : ~WhitespaceOnly(embed_log[k].text)
    /\ upsert_calls <= 1
    /\ ipc \in {"file", "chunk", "upsert"} => upsert_calls = 0
    /\ ipc = "done" =>
          /\ upsert_calls = IF Len(points) > 0 THEN 1 ELSE 0
          /\ Len(points) = 0 => collection.points = NoPoints
C6_Witness ==
    /\ ipc = "done" /\ Len(docs) = 2
    /\ docs[1].content = BlankText /\ IsDocFile(docs[1]) /\ docs[1].readable
    /\ docs[2].content = LongText /\ IsDocFile(docs[2])
    /\ Len(embed_log) = 2 /\ \A k \in 1..Len(embed_log) : ~embed_log[k].ok
    /\ upsert_calls = 0 /\ collection.points = NoPoints

\* a run that followed a run which indexed more points has completed
ShrunkRerun == ipc = "done" /\ run_no >= 2 /\ Len(points) < prev_count

\* C7 (as amended): after a run that indexed M points, a run producing
\* N < M points leaves exactly its own points, ids 0..N-1, in the collection;
\* the earlier run's points N..M-1 are gone, the collection being recreated
\* at the start of every run.
C7_RerunReplacesCollection ==
    ShrunkRerun =>
        /\ collection # None
        /\ DOMAIN collection.points = 0..(Len(points) - 1)
        /\ \A id \in DOMAIN collection.points :
              collection.points[id] =
                [vector |-> points[id + 1].vector, payload |-> points[id + 1].payload]
C7_Witness == ShrunkRerun /\ Len(points) >= 1 /\ prev_count >= 3
\* C7 as stated: the second run overwrites ids 0..N-1 and the collection
\* still contains the first run's stale points with ids N..M-1.
C7_AsStated ==
    ShrunkRerun =>
        /\ \A id \in 0..(Len(points) - 1) : id \in DOMAIN collection.points
        /\ \A id \in Len(points)..(prev_count - 1) : id \in DOMAIN collection.points

\* C8: a /chat handled while the LLM handle or the vector-index client is not
\* initialized (start-up initialization failed or was skipped) fails before
\* any embedding, index-search or LLM call is attempted.
C8_NotReadyRejected ==
    (chat.status # "none" /\
       (~chat.gemini_ready \/ ~chat.client_ready \/ ~chat.index_initialized)) =>
        chat.status # "200" /\ chat.calls = <<>>

\* C9: a signup whose username is already stored answers 400 and leaves the
\* store unchanged; a stored record is never modified or removed by signup,
\* login or /auth/me.
C9_UserRecordsImmutable ==
    [][ /\ \A u \in Usernames :
             users_db[u] # None =>
               /\ users_db'[u] = users_db[u]
               /\ (resp'.op = "signup" /\ resp'.username = u) =>
                    (resp'.status = 400 /\ users_db' = users_db)
        /\ resp'.op \in {"login", "me"} => users_db' = users_db ]_vars
C9_Witness ==
    /\ resp.op = "signup" /\ resp.status = 400
    /\ \A u \in Usernames : users_db[u] # None

\* C10: whenever the collection exists its vector size is that of the
\* embedding vectors (768), and no search is issued against a collection of
\* another size.
C10_DimensionsAgree ==
    /\ collection # None => collection.size = EMBEDDING_DIM
    /\ (chat.status # "none" /\ Len(chat.calls) >= 2) => chat.index_size = chat.query_dim
====
